---- MODULE Spec2Model ----
(***************************************************************************)
(* A model of the scripts of arunemor/stock_analysis:                      *)
(*   - the caption compositor of image_process/image_extract.py and        *)
(*     text_image_extract.py                  (specification SpecCompose), *)
(*   - extract_graphs of test-process/main.py (specification SpecGraphs),  *)
(*   - the vector-store indexing scripts image_process/data_store_weav.py, *)
(*     test-process/text.py and text_+_image.py, and the querying scripts  *)
(*     image_process/check_image_data.py, test-process/check_data_store.py *)
(*     and search.py                          (specification SpecIndex),   *)
(*   - the picture loop and the sidecar of image_process/image_extract.py  *)
(*                                            (specification SpecExtract), *)
(*   - chunk_text of text_+_image.py          (specification SpecChunk).   *)
(* Each specification runs one script; the variables of the other scripts  *)
(* stay at their idle values.                                              *)
(***************************************************************************)
EXTENDS Integers, Sequences, FiniteSets, TLC

VARIABLES
    \* ---- caption compositor (image_extract.py 83-120) ----
    c_pc,        \* "input" | "composed"
    c_caption,   \* the caption string, a sequence of characters
    c_image,     \* the region image: [width, height]
    c_font,      \* font_size
    c_out,       \* the composite: [width, height, lines, ys, rows] or NoComposite
    \* ---- extract_graphs (main.py 15-70) ----
    g_pc,        \* "start" | "page" | "contour" | "done" | "failed" | "idle"
    g_folder,    \* the files of output_folder
    g_pdf,       \* [exists, pages]: the PDF at pdf_path
    g_page_no,   \* page_no of the page being processed
    g_found,     \* the contours of the page as cv2.findContours returned them
    g_contours,  \* the contours after line 53's sort
    g_ci,        \* how many of g_contours the inner loop has handled
    g_emitted,   \* the rectangles saved for the current page, in order
    g_img_count, \* img_count
    g_before,    \* the files of output_folder when extract_graphs was called
    g_total,     \* how many contours of the pages rendered so far have the minimum size
    \* ---- the scripts that talk to the vector store ----
    i_script,    \* "images" | "query" | "text" | "lookup" | "pdf" | "search" | "idle"
    i_pc,        \* the script's position
    i_run,       \* how many times the script was started
    i_input,     \* the script's input, unchanged between runs
    i_store,     \* the vector store: collection name -> [exists, dim, objs]
    i_conn,      \* "none" | "open" | "closed": the client's connection
    i_calls,     \* the store operations of this run, in order
    i_items,     \* what the current loop still has to process
    i_backup,    \* the backup list(s) of this run
    i_file,      \* the backup JSON on disk
    i_uuid4,     \* how many identifiers the store has generated
    i_pre,       \* the store as the current run found it
    i_hist,      \* the objects of the script's collection after each finished run
    i_query,     \* what a querying script searches for
    i_result,    \* what its query returned
    \* ---- extract_graphs_to_single_file (image_extract.py 12-157) ----
    x_pc,        \* "start" | "loop" | "done" | "reported" | "idle"
    x_run,       \* how many times the script was started
    x_left,      \* how many items of the document the loop has still to visit
    x_pic_index, \* pic_index
    x_extracted, \* extracted
    x_dir,       \* the PNG files of output_dir, by name
    x_sidecar,   \* output_dir/graphs_only.json: [present, entries]
    x_seen,      \* for each picture visited, whether its image was obtained
    \* ---- chunk_text (text_+_image.py 168-181) ----
    k_pc,        \* "input" | "chunked" | "idle"
    k_text,      \* text
    k_max_len,   \* max_len
    k_chunks     \* the list chunk_text returns

varsC == <<c_pc, c_caption, c_image, c_font, c_out>>
varsG == <<g_pc, g_folder, g_pdf, g_page_no, g_found, g_contours, g_ci,
           g_emitted, g_img_count, g_before, g_total>>
varsQ == <<i_query, i_result>>
varsI == <<i_script, i_pc, i_run, i_input, i_store, i_conn, i_calls, i_items,
           i_backup, i_file, i_uuid4, i_pre, i_hist, varsQ>>
varsX == <<x_pc, x_run, x_left, x_pic_index, x_extracted, x_dir, x_sidecar, x_seen>>
varsK == <<k_pc, k_text, k_max_len, k_chunks>>
vars == <<varsC, varsG, varsI, varsX, varsK>>

----------------------------------------------------------------------------
(* Sequences.                                                              *)

SeqsUpTo(S, n) == UNION {[1..k -> S] : k \in 0..n}

RECURSIVE SumSeq(_)
SumSeq(s) == IF s = <<>> THEN 0 ELSE Head(s) + SumSeq(Tail(s))

Range(s) == {s[i] : i \in 1..Len(s)}

----------------------------------------------------------------------------
(* Strings are sequences of characters.                                    *)

\* str.split() with no argument: the maximal runs of non-whitespace.
RECURSIVE SplitFrom(_, _, _, _)
SplitFrom(s, i, cur, acc) ==
    IF i > Len(s)
    THEN IF cur = <<>> THEN acc ELSE Append(acc, cur)
    ELSE IF s[i] = " "
         THEN SplitFrom(s, i + 1, <<>>, IF cur = <<>> THEN acc ELSE Append(acc, cur))
         ELSE SplitFrom(s, i + 1, Append(cur, s[i]), acc)

split(s) == SplitFrom(s, 1, <<>>, <<>>)

\* ' '.join(words)
RECURSIVE join(_)
join(words) ==
    IF words = <<>> THEN <<>>
    ELSE IF Len(words) = 1 THEN words[1]
    ELSE words[1] \o <<" ">> \o join(Tail(words))

\* The advance width of one glyph of the font in use, in pixels.
Advance(ch) ==
    CASE ch = " " -> 3
      [] ch = "b" -> 9
      [] OTHER    -> 6

\* draw.textlength(text, font=font): the sum of the glyphs' advances.
textlength(text) == SumSeq([i \in 1..Len(text) |-> Advance(text[i])])

----------------------------------------------------------------------------
(* The caption compositor: image_extract.py 83-120, repeated verbatim in   *)
(* text_image_extract.py 79-116.  An image is modelled by its size and its *)
(* pixel rows: row y of a region is <<"px", y>>, a row of the blank        *)
(* composite is <<"white", 0>>, and a row that the k-th caption line was   *)
(* drawn on is <<"ink", k>> (a line drawn at y covers rows y..y+font_size-1,*)
(* clipped to the image).                                                  *)

MaxCaptionLen == 5
ComposeChars == {"a", "b", " "}
Widths == {30, 56, 70}
Heights == {1, 30}
FontSizes == {12, 24}

NoComposite == [width |-> 0, height |-> 0, caption_height |-> 0,
                lines |-> <<>>, ys |-> <<>>, rows |-> <<>>]

\* caption_height = font_size + 20  # Padding
CaptionHeight(font_size) == font_size + 20

NewHeightNoBand(pil_image, caption_height) == pil_image.height

\* new_height = pil_image.height + caption_height
NewHeight(pil_image, caption_height) == pil_image.height + caption_height

\* Image.new('RGB', (new_width, new_height), color='white')
BlankRows(new_height) == [y \in 0..(new_height - 1) |-> <<"white", 0>>]

TestLineWordOnly(current_line, word) == word

\* test_line = ' '.join(current_line + [word])
TestLine(current_line, word) == join(Append(current_line, word))

RECURSIVE WrapFromDropsWord(_, _, _, _, _)
WrapFromDropsWord(words, i, lines, current_line, new_width) ==
    IF i > Len(words)
    THEN IF current_line # <<>> THEN Append(lines, join(current_line)) ELSE lines
    ELSE LET word == words[i]
             test_line == TestLine(current_line, word)
         IN  IF textlength(test_line) < new_width - 40
             THEN WrapFromDropsWord(words, i + 1, lines, Append(current_line, word),
                                    new_width)
             ELSE WrapFromDropsWord(words, i + 1,
                                    IF current_line # <<>>
                                    THEN Append(lines, join(current_line)) ELSE lines,
                                    <<>>, new_width)

\* The wrapping loop; a line is stored joined, as the code stores it.
RECURSIVE WrapFrom(_, _, _, _, _)
WrapFrom(words, i, lines, current_line, new_width) ==
    IF i > Len(words)
    THEN IF current_line # <<>> THEN Append(lines, join(current_line)) ELSE lines
    ELSE LET word == words[i]
             test_line == TestLine(current_line, word)
         IN  IF textlength(test_line) < new_width - 40
             THEN WrapFrom(words, i + 1, lines, Append(current_line, word), new_width)
             ELSE WrapFrom(words, i + 1,
                           IF current_line # <<>>
                           THEN Append(lines, join(current_line)) ELSE lines,
                           <<word>>, new_width)

WrapCaption(caption, new_width) == WrapFrom(split(caption), 1, <<>>, <<>>, new_width)

\* y_offset of the k-th line: starts at 10, advances by font_size + 5.
LineOffsets(lines, font_size) ==
    [k \in 1..Len(lines) |-> 10 + (k - 1) * (font_size + 5)]

\* draw.text((20, y_offset), line, ...) for the lines from the k-th on.
RECURSIVE DrawLines(_, _, _, _)
DrawLines(rows, ys, k, font_size) ==
    IF k > Len(ys) THEN rows
    ELSE DrawLines([y \in DOMAIN rows |->
                       IF y >= ys[k] /\ y < ys[k] + font_size
                       THEN <<"ink", k>> ELSE rows[y]],
                   ys, k + 1, font_size)

\* new_img.paste(pil_image, (0, top))
Paste(rows, pil_image, top) ==
    [y \in DOMAIN rows |->
        IF y >= top /\ y < top + pil_image.height THEN <<"px", y - top>> ELSE rows[y]]

PasteThenDraw(rows, ys, font_size, pil_image, caption_height) ==
    DrawLines(Paste(rows, pil_image, caption_height), ys, 1, font_size)

\* Draw the lines of text, then paste the original image below.
DrawThenPaste(rows, ys, font_size, pil_image, caption_height) ==
    Paste(DrawLines(rows, ys, 1, font_size), pil_image, caption_height)

Composite(pil_image, caption, font_size) ==
    LET caption_height == CaptionHeight(font_size)
        new_width == pil_image.width
        new_height == NewHeight(pil_image, caption_height)
        lines == WrapCaption(caption, new_width)
        ys == LineOffsets(lines, font_size)
    IN  [width |-> new_width, height |-> new_height,
         caption_height |-> caption_height, lines |-> lines, ys |-> ys,
         rows |-> DrawThenPaste(BlankRows(new_height), ys, font_size,
                                pil_image, caption_height)]

IdleC == /\ c_pc = "idle"
         /\ c_caption = <<>>
         /\ c_image = [width |-> 0, height |-> 0]
         /\ c_font = 0
         /\ c_out = NoComposite

InitC == /\ c_pc = "input"
         /\ c_caption \in SeqsUpTo(ComposeChars, MaxCaptionLen)
         /\ c_image \in [width : Widths, height : Heights]
         /\ c_font \in FontSizes
         /\ c_out = NoComposite

Compose ==
    /\ c_pc = "input"
    /\ c_out' = Composite(c_image, c_caption, c_font)
    /\ c_pc' = "composed"
    /\ UNCHANGED <<c_caption, c_image, c_font>>
    /\ UNCHANGED <<varsG, varsI, varsX, varsK>>

----------------------------------------------------------------------------
(* extract_graphs: main.py 15-70.  A contour is modelled by its bounding   *)
(* rectangle [x, y, w, h]; a file graph_<page>_<n>.png of the output       *)
(* folder by <<page, n, by>>, any other file by <<0, 0, by>>, where by is  *)
(* "new" for a file this call wrote and "old" for one it found.            *)

MaxPages == 2
MaxContours == 3
MIN_AREA == 40000
MIN_WIDTH == 250
MIN_HEIGHT == 180

Tops == {0, 10}
Sizes == {<<250, 180>>, <<249, 400>>, <<400, 179>>}
Rects == {[x |-> 0, y |-> t, w |-> sz[1], h |-> sz[2]] : t \in Tops, sz \in Sizes}
OldFiles == {<<1, 1, "old">>, <<0, 0, "old">>}

\* cv2.imwrite(out_path, graph): a file of that name is replaced.
WriteFile(folder, page, n) ==
    {f \in folder : ~(f[1] = page /\ f[2] = n)} \cup {<<page, n, "new">>}

\* The size condition as the specification words it.
Passes(c) == c.w * c.h >= MIN_AREA /\ c.w >= MIN_WIDTH /\ c.h >= MIN_HEIGHT

RejectOffByOne(cnt) ==
    \/ cnt.w * cnt.h <= MIN_AREA
    \/ cnt.w <= MIN_WIDTH
    \/ cnt.h <= MIN_HEIGHT

\* if area < MIN_AREA or w < MIN_WIDTH or h < MIN_HEIGHT: continue
Reject(cnt) ==
    \/ cnt.w * cnt.h < MIN_AREA
    \/ cnt.w < MIN_WIDTH
    \/ cnt.h < MIN_HEIGHT

\* sorted(..., key=y) is stable: an element goes after those with a key <= its own.
RECURSIVE InsertByY(_, _)
InsertByY(sorted, c) ==
    IF sorted = <<>> THEN <<c>>
    ELSE IF Head(sorted).y <= c.y
         THEN <<Head(sorted)>> \o InsertByY(Tail(sorted), c)
         ELSE <<c>> \o sorted

RECURSIVE SortedByY(_)
SortedByY(cs) ==
    IF cs = <<>> THEN <<>>
    ELSE InsertByY(SortedByY(SubSeq(cs, 1, Len(cs) - 1)), cs[Len(cs)])

Unsorted(found) == found

\* contours = sorted(contours, key=lambda c: cv2.boundingRect(c)[1])
SortContours(found) == SortedByY(found)

IdleG == /\ g_pc = "idle"
         /\ g_folder = {}
         /\ g_pdf = [exists |-> FALSE, pages |-> 0]
         /\ g_page_no = 0
         /\ g_found = <<>>
         /\ g_contours = <<>>
         /\ g_ci = 0
         /\ g_emitted = <<>>
         /\ g_img_count = 0
         /\ g_before = {}
         /\ g_total = 0

InitG == /\ g_pc = "start"
         /\ g_folder \in SUBSET OldFiles
         /\ g_pdf \in [exists : BOOLEAN, pages : 0..MaxPages]
         /\ g_page_no = 0
         /\ g_found = <<>>
         /\ g_contours = <<>>
         /\ g_ci = 0
         /\ g_emitted = <<>>
         /\ g_img_count = 0
         /\ g_before = g_folder
         /\ g_total = 0

GraphsStartNoReset ==
    /\ g_pc = "start"
    /\ g_pc' = IF g_pdf.exists THEN "page" ELSE "failed"
    /\ UNCHANGED <<g_folder, g_pdf, g_page_no, g_found, g_contours, g_ci, g_emitted,
                   g_img_count, g_before, g_total>>
    /\ UNCHANGED <<varsC, varsI, varsX, varsK>>

\* Lines 20-28: reset the folder, then open the PDF (which raises when the
\* file is missing or unreadable).
GraphsStart ==
    /\ g_pc = "start"
    /\ g_folder' = {}
    /\ g_pc' = IF g_pdf.exists THEN "page" ELSE "failed"
    /\ UNCHANGED <<g_pdf, g_page_no, g_found, g_contours, g_ci, g_emitted, g_img_count,
                   g_before, g_total>>
    /\ UNCHANGED <<varsC, varsI, varsX, varsK>>

\* Lines 33-53: render the next page, find its contours, sort them.
GraphsPage ==
    /\ g_pc = "page"
    /\ g_page_no < g_pdf.pages
    /\ \E found \in SeqsUpTo(Rects, MaxContours) :
          /\ g_found' = found
          /\ g_contours' = SortContours(found)
          /\ g_total' = g_total + Len(SelectSeq(found, Passes))
    /\ g_ci' = 0
    /\ g_emitted' = <<>>
    /\ g_pc' = "contour"
    /\ UNCHANGED <<g_folder, g_pdf, g_page_no, g_img_count, g_before>>
    /\ UNCHANGED <<varsC, varsI, varsX, varsK>>

\* Lines 55-67: one iteration of the loop over the sorted contours.
GraphsContour ==
    /\ g_pc = "contour"
    /\ g_ci < Len(g_contours)
    /\ LET cnt == g_contours[g_ci + 1]
       IN  IF Reject(cnt)
           THEN UNCHANGED <<g_img_count, g_folder, g_emitted>>
           ELSE /\ g_img_count' = g_img_count + 1
                /\ g_folder' = WriteFile(g_folder, g_page_no + 1, g_img_count + 1)
                /\ g_emitted' = Append(g_emitted, cnt)
    /\ g_ci' = g_ci + 1
    /\ UNCHANGED <<g_pc, g_pdf, g_page_no, g_found, g_contours, g_before, g_total>>
    /\ UNCHANGED <<varsC, varsI, varsX, varsK>>

\* The inner loop is exhausted: on to the next page_no (the page's locals
\* are dropped).
GraphsPageEnd ==
    /\ g_pc = "contour"
    /\ g_ci = Len(g_contours)
    /\ g_page_no' = g_page_no + 1
    /\ g_pc' = "page"
    /\ g_found' = <<>>
    /\ g_contours' = <<>>
    /\ g_ci' = 0
    /\ g_emitted' = <<>>
    /\ UNCHANGED <<g_folder, g_pdf, g_img_count, g_before, g_total>>
    /\ UNCHANGED <<varsC, varsI, varsX, varsK>>

\* Lines 69-70: return img_count.
GraphsDone ==
    /\ g_pc = "page"
    /\ g_page_no = g_pdf.pages
    /\ g_pc' = "done"
    /\ UNCHANGED <<g_folder, g_pdf, g_page_no, g_found, g_contours, g_ci, g_emitted,
                   g_img_count, g_before, g_total>>
    /\ UNCHANGED <<varsC, varsI, varsX, varsK>>

----------------------------------------------------------------------------
(* The vector store, as the scripts use it.  A collection is               *)
(* [exists, dim, objs]; an object is [id, props, vector].  An object added *)
(* under an identifier the collection already holds replaces that object;  *)
(* an object inserted without an identifier gets a fresh one from the      *)
(* store.                                                                  *)

MaxRuns == 2
MaxItems == 2

Collections == {"MyLocalImages", "ParagraphChunk", "PDFContent"}
NoCollection == [exists |-> FALSE, dim |-> 0, objs |-> {}]
EmptyStore == [c \in Collections |-> NoCollection]
StaleObject == [id |-> <<"uuid4", 0>>, props |-> <<"stale">>, vector |-> <<"stale">>]

\* client.collections.delete(name)
Delete(st, name) == [st EXCEPT ![name] = NoCollection]

\* client.collections.create(name=..., ...)
Create(st, name, dim) == [st EXCEPT ![name] = [exists |-> TRUE, dim |-> dim, objs |-> {}]]

\* batch.add_object(properties, vector, uuid) / data.insert(properties, vector)
Put(st, name, obj) ==
    [st EXCEPT ![name].objs = {o \in @ : o.id # obj.id} \cup {obj}]

Ids(coll) == {o.id : o \in coll.objs}

Min(a, b) == IF a <= b THEN a ELSE b

\* The cosine distance of two embeddings, as far as the scripts depend on
\* it: 0 for equal vectors, and some positive number (here 1) otherwise.
Distance(u, v) == IF u = v THEN 0 ELSE 1

\* collection.query.near_vector(near_vector=vec, limit=limit): the
\* responses the store may give, the limit nearest objects by ascending
\* distance; objects at the same distance come in any order.
near_vector(coll, vec, limit) ==
    LET k == Min(limit, Cardinality(coll.objs))
        ranked == {q \in [1..k -> coll.objs] :
                     /\ \A a, b \in 1..k : a < b =>
                           /\ q[a] # q[b]
                           /\ Distance(q[a].vector, vec) <= Distance(q[b].vector, vec)
                     /\ \A o \in coll.objs \ Range(q) : \A a \in 1..k :
                           Distance(q[a].vector, vec) <= Distance(o.vector, vec)}
    IN  {[j \in 1..k |-> [id |-> q[j].id, props |-> q[j].props,
                          distance |-> Distance(q[j].vector, vec)]] : q \in ranked}

\* len(response.objects)
ResultCount(coll, limit) == Min(limit, Cardinality(coll.objs))

\* The identifier the store generates for an insert that names none.
Uuid4(n) == <<"uuid4", n>>

\* model.encode(x): a vector that is a function of the content alone.
Encode(x) == <<"vec", x>>

SeqsNoRepeat(S, n) ==
    {q \in SeqsUpTo(S, n) : \A a, b \in 1..Len(q) : a # b => q[a] # q[b]}

IdleI == /\ i_script = "idle"
         /\ i_pc = "idle"
         /\ i_run = 0
         /\ i_input = <<>>
         /\ i_store = EmptyStore
         /\ i_conn = "none"
         /\ i_calls = <<>>
         /\ i_items = <<>>
         /\ i_backup = <<>>
         /\ i_file = <<>>
         /\ i_uuid4 = 0
         /\ i_pre = EmptyStore
         /\ i_hist = <<>>
         /\ i_query = "none"
         /\ i_result = <<>>

\* What every script starts from, but for its input and the store it finds.
StartI(script) ==
    /\ i_script = script
    /\ i_pc = "start"
    /\ i_run = 1
    /\ i_conn = "none"
    /\ i_calls = <<>>
    /\ i_items = <<>>
    /\ i_backup = <<>>
    /\ i_file = <<>>
    /\ i_uuid4 = 1
    /\ i_pre = EmptyStore
    /\ i_hist = <<>>
    /\ i_query = "none"
    /\ i_result = <<>>

\* The script is started again on the same input.
Rerun ==
    /\ i_pc = "done"
    /\ i_run < MaxRuns
    /\ i_run' = i_run + 1
    /\ i_pc' = "start"
    /\ i_conn' = "none"
    /\ i_calls' = <<>>
    /\ i_backup' = <<>>
    /\ UNCHANGED <<i_script, i_input, i_store, i_items, i_file, i_uuid4, i_pre, i_hist>>
    /\ UNCHANGED <<varsC, varsG, varsX, varsK, varsQ>>

----------------------------------------------------------------------------
(* image_process/data_store_weav.py and check_image_data.py.  An image     *)
(* file is [dir, name]; the input is the recursive listing of IMAGE_FOLDER,*)
(* the set of files that cannot be opened as images and the set of images  *)
(* whose add_object fails.  Files of the same name show the same picture   *)
(* (graphs_only/old holds copies).                                         *)

ImageFiles == {[dir |-> d, name |-> n] : d \in {"graphs_only", "graphs_only/old"},
                                          n \in {"a.png", "b.jpg"}}
              \cup {[dir |-> "graphs_only", name |-> "notes.txt"]}

Suffix(file) == IF file.name = "notes.txt" THEN ".txt"
                ELSE IF file.name = "b.jpg" THEN ".jpg" ELSE ".png"

ImageSuffixes == {".jpg", ".jpeg", ".png", ".webp", ".bmp", ".gif"}

\* str(img_path)
PathStr(file) == <<file.dir, "/", file.name>>

Uuid5OfName(img_path) == <<"uuid5", <<img_path.name>>>>

\* Image.open(img_path).convert("RGB"): the picture the file shows.
ImageContent(file) == IF file.name = "a.png" THEN "chart A" ELSE "chart B"

IndexVectorOfName(img_path) == Encode(<<img_path.name>>)

\* data_store_weav.py line 64: the vector stored for an image.
IndexVector(img_path) == Encode(ImageContent(img_path))

\* check_image_data.py lines 41-42: the vector of the query image.
QueryVector(img_path) == Encode(ImageContent(img_path))

\* generate_uuid5(img_path): a hash of the path's string.
generate_uuid5(img_path) == <<"uuid5", PathStr(img_path)>>

InitImages ==
    /\ StartI("images")
    /\ \E listing \in SeqsNoRepeat(ImageFiles, MaxItems + 1) :
       \E corrupt \in SUBSET Range(listing) :
       \E rejected \in SUBSET {f \in Range(listing) \ corrupt :
                                  Suffix(f) \in ImageSuffixes} :
          i_input = [listing |-> listing, corrupt |-> corrupt, rejected |-> rejected]
    /\ \E found \in {NoCollection,
                     [exists |-> TRUE, dim |-> 0, objs |-> {StaleObject}]} :
          i_store = [EmptyStore EXCEPT !["MyLocalImages"] = found]

\* Lines 18-56: connect, delete the collection if it exists, create it,
\* list the image files.
ImagesSetup ==
    /\ i_script = "images"
    /\ i_pc = "start"
    /\ i_conn' = "open"
    /\ i_pre' = i_store
    /\ LET existed == i_store["MyLocalImages"].exists
           cleared == IF existed THEN Delete(i_store, "MyLocalImages") ELSE i_store
       IN  /\ i_store' = Create(cleared, "MyLocalImages", 0)
           /\ i_calls' = <<"exists">> \o (IF existed THEN <<"delete">> ELSE <<>>)
                         \o <<"create">>
    /\ i_items' = SelectSeq(i_input.listing, LAMBDA f : Suffix(f) \in ImageSuffixes)
    /\ i_backup' = <<>>
    /\ i_pc' = "loop"
    /\ UNCHANGED <<i_script, i_run, i_input, i_file, i_uuid4, i_hist>>
    /\ UNCHANGED <<varsC, varsG, varsX, varsK, varsQ>>

\* Lines 59-84: one iteration; an image that cannot be opened is reported
\* and skipped; the backup record is appended before add_object is called,
\* and a failure of add_object is reported like any other.
ImagesItem ==
    /\ i_script = "images"
    /\ i_pc = "loop"
    /\ i_items # <<>>
    /\ LET img_path == Head(i_items)
           vector == IndexVector(img_path)
       IN  IF img_path \in i_input.corrupt
           THEN UNCHANGED <<i_backup, i_store, i_calls>>
           ELSE /\ i_backup' = Append(i_backup, [filename |-> img_path.name,
                                                 path |-> PathStr(img_path),
                                                 vector |-> vector])
                /\ i_calls' = Append(i_calls, "add_object")
                /\ IF img_path \in i_input.rejected
                   THEN i_store' = i_store
                   ELSE i_store' = Put(i_store, "MyLocalImages",
                                       [id |-> generate_uuid5(img_path),
                                        props |-> <<img_path.name, PathStr(img_path)>>,
                                        vector |-> vector])
    /\ i_items' = Tail(i_items)
    /\ UNCHANGED <<i_script, i_pc, i_run, i_input, i_conn, i_file, i_uuid4, i_pre, i_hist>>
    /\ UNCHANGED <<varsC, varsG, varsX, varsK, varsQ>>

\* Lines 86-94: write the backup JSON, close the client.
ImagesFinish ==
    /\ i_script = "images"
    /\ i_pc = "loop"
    /\ i_items = <<>>
    /\ i_file' = i_backup
    /\ i_conn' = "closed"
    /\ i_calls' = Append(i_calls, "close")
    /\ i_hist' = Append(i_hist, i_store["MyLocalImages"].objs)
    /\ i_pc' = "done"
    /\ UNCHANGED <<i_script, i_run, i_input, i_store, i_items, i_backup,
                   i_uuid4, i_pre>>
    /\ UNCHANGED <<varsC, varsG, varsX, varsK, varsQ>>

\* check_image_data.py, run after data_store_weav.py has finished.
\* Lines 13-27: QUERY_IMAGE names some file, which exists when the folder
\* lists it; load the model, connect, get the collection.
QuerySetup ==
    /\ i_script = "images"
    /\ i_pc = "done"
    /\ \E q \in ImageFiles : i_query' = q
    /\ i_script' = "query"
    /\ i_pc' = "check"
    /\ i_conn' = "open"
    /\ i_calls' = <<"get">>
    /\ i_result' = <<>>
    /\ UNCHANGED <<i_run, i_input, i_store, i_items, i_backup, i_file, i_uuid4,
                   i_pre, i_hist>>
    /\ UNCHANGED <<varsC, varsG, varsX, varsK>>

\* Lines 30-37: the query image does not exist: report, close, exit.
QueryMissing ==
    /\ i_script = "query"
    /\ i_pc = "check"
    /\ i_query \notin Range(i_input.listing)
    /\ i_conn' = "closed"
    /\ i_calls' = Append(i_calls, "close")
    /\ i_pc' = "exited"
    /\ UNCHANGED <<i_script, i_run, i_input, i_store, i_items, i_backup, i_file,
                   i_uuid4, i_pre, i_hist, i_query, i_result>>
    /\ UNCHANGED <<varsC, varsG, varsX, varsK>>

\* Lines 39-57: open and encode the query image, query the six nearest
\* objects, print them.  Image.open raises for a file that is no image, and
\* nothing catches it.
QuerySearch ==
    /\ i_script = "query"
    /\ i_pc = "check"
    /\ i_query \in Range(i_input.listing)
    /\ IF i_query \in i_input.corrupt \/ Suffix(i_query) \notin ImageSuffixes
       THEN /\ i_pc' = "aborted"
            /\ UNCHANGED <<i_calls, i_result>>
       ELSE /\ i_result' \in near_vector(i_store["MyLocalImages"],
                                         QueryVector(i_query), 6)
            /\ i_calls' = Append(i_calls, "near_vector")
            /\ i_pc' = "printed"
    /\ UNCHANGED <<i_script, i_run, i_input, i_store, i_conn, i_items, i_backup,
                   i_file, i_uuid4, i_pre, i_hist, i_query>>
    /\ UNCHANGED <<varsC, varsG, varsX, varsK>>

\* Line 61: client.close().
QueryClose ==
    /\ i_script = "query"
    /\ i_pc = "printed"
    /\ i_conn' = "closed"
    /\ i_calls' = Append(i_calls, "close")
    /\ i_pc' = "finished"
    /\ UNCHANGED <<i_script, i_run, i_input, i_store, i_items, i_backup, i_file,
                   i_uuid4, i_pre, i_hist, i_query, i_result>>
    /\ UNCHANGED <<varsC, varsG, varsX, varsK>>

----------------------------------------------------------------------------
(* test-process/text.py, store_in_weaviate(chunks, embeddings).  The input *)
(* is the list of chunks; embeddings[k] is Encode(chunks[k]).              *)

ChunkTexts == {<<"a">>, <<"a", " ", "b">>}

InitText ==
    /\ StartI("text")
    /\ \E chunks \in SeqsUpTo(ChunkTexts, MaxItems) : i_input = [chunks |-> chunks]
    /\ \E found \in {NoCollection, [exists |-> TRUE, dim |-> 0, objs |-> {}]} :
          i_store = [EmptyStore EXCEPT !["ParagraphChunk"] = found]

OnRaiseNoFinally == "failed"

\* Where control goes when a statement of the try block raises: to the
\* finally clause, with the exception pending.
OnRaise == "raised"

\* Lines 90-117: connect; in the try block, create the collection unless it
\* is listed, and get it.  Any of these calls may raise.
TextSetup ==
    /\ i_script = "text"
    /\ i_pc = "start"
    /\ i_conn' = "open"
    /\ i_pre' = i_store
    /\ \E raises \in BOOLEAN :
          IF raises
          THEN /\ i_store' = i_store
               /\ i_calls' = <<"list_all">>
               /\ i_items' = <<>>
               /\ i_pc' = OnRaise
          ELSE /\ IF ~i_store["ParagraphChunk"].exists
                  THEN /\ i_store' = Create(i_store, "ParagraphChunk", 0)
                       /\ i_calls' = <<"list_all", "create", "get">>
                  ELSE /\ i_store' = i_store
                       /\ i_calls' = <<"list_all", "get">>
               /\ i_items' = i_input.chunks
               /\ i_pc' = "loop"
    /\ UNCHANGED <<i_script, i_run, i_input, i_backup, i_file, i_uuid4, i_hist>>
    /\ UNCHANGED <<varsC, varsG, varsX, varsK, varsQ>>

\* Lines 120-125: one iteration; insert names no identifier, and may raise.
TextInsert ==
    /\ i_script = "text"
    /\ i_pc = "loop"
    /\ i_items # <<>>
    /\ i_calls' = Append(i_calls, "insert")
    /\ \E raises \in BOOLEAN :
          IF raises
          THEN /\ i_pc' = OnRaise
               /\ UNCHANGED <<i_store, i_uuid4, i_items>>
          ELSE /\ i_store' = Put(i_store, "ParagraphChunk",
                                 [id |-> Uuid4(i_uuid4), props |-> <<Head(i_items)>>,
                                  vector |-> Encode(Head(i_items))])
               /\ i_uuid4' = i_uuid4 + 1
               /\ i_items' = Tail(i_items)
               /\ i_pc' = "loop"
    /\ UNCHANGED <<i_script, i_run, i_input, i_conn, i_backup, i_file, i_pre, i_hist>>
    /\ UNCHANGED <<varsC, varsG, varsX, varsK, varsQ>>

\* Lines 127-131: finally: client.close(), reached when the loop is over
\* and when a statement of the try block raised.
TextClose ==
    /\ i_script = "text"
    /\ \/ i_pc = "loop" /\ i_items = <<>>
       \/ i_pc = "raised"
    /\ i_conn' = "closed"
    /\ i_calls' = Append(i_calls, "close")
    /\ IF i_pc = "raised"
       THEN i_pc' = "failed" /\ i_hist' = i_hist
       ELSE i_pc' = "done" /\ i_hist' = Append(i_hist, i_store["ParagraphChunk"].objs)
    /\ UNCHANGED <<i_script, i_run, i_input, i_store, i_items, i_backup,
                   i_file, i_uuid4, i_pre>>
    /\ UNCHANGED <<varsC, varsG, varsX, varsK, varsQ>>

\* test-process/check_data_store.py, search_weaviate(query_text), run after
\* text.py has ended.  Lines 10-14: connect.
LookupConnect ==
    /\ i_script = "text"
    /\ i_pc \in {"done", "failed"}
    /\ \E query_text \in ChunkTexts : i_query' = query_text
    /\ i_script' = "lookup"
    /\ i_pc' = "try"
    /\ i_conn' = "open"
    /\ i_calls' = <<>>
    /\ i_result' = <<>>
    /\ UNCHANGED <<i_run, i_input, i_store, i_items, i_backup, i_file, i_uuid4,
                   i_pre, i_hist>>
    /\ UNCHANGED <<varsC, varsG, varsX, varsK>>

\* Lines 17-40, the try block: load the model, encode the query, get the
\* collection, query the three nearest objects, print them.  Loading the
\* model may raise; the query raises when the collection does not exist,
\* and may raise otherwise.
LookupQuery ==
    /\ i_script = "lookup"
    /\ i_pc = "try"
    /\ \E raises \in {"model", "query", "none"} :
          IF raises = "model"
          THEN /\ i_pc' = OnRaise
               /\ UNCHANGED <<i_calls, i_result>>
          ELSE /\ i_calls' = i_calls \o <<"get", "near_vector">>
               /\ IF raises = "query" \/ ~i_store["ParagraphChunk"].exists
                  THEN /\ i_pc' = OnRaise
                       /\ i_result' = i_result
                  ELSE /\ i_pc' = "printed"
                       /\ i_result' = <<"found", ResultCount(i_store["ParagraphChunk"], 3)>>
    /\ UNCHANGED <<i_script, i_run, i_input, i_store, i_conn, i_items, i_backup,
                   i_file, i_uuid4, i_pre, i_hist, i_query>>
    /\ UNCHANGED <<varsC, varsG, varsX, varsK>>

\* Lines 42-43: finally: client.close().
LookupClose ==
    /\ i_script = "lookup"
    /\ i_pc \in {"printed", "raised"}
    /\ i_conn' = "closed"
    /\ i_calls' = Append(i_calls, "close")
    /\ i_pc' = IF i_pc = "raised" THEN "failed" ELSE "finished"
    /\ UNCHANGED <<i_script, i_run, i_input, i_store, i_items, i_backup, i_file,
                   i_uuid4, i_pre, i_hist, i_query, i_result>>
    /\ UNCHANGED <<varsC, varsG, varsX, varsK>>

----------------------------------------------------------------------------
(* text_+_image.py: ensure_collection, chunk_text, process_pdf and the     *)
(* main block.  The input is whether the PDF exists, what Docling extracts *)
(* from it (text blocks by type), the number of pages, and whether the     *)
(* client's collection config carries the attribute                        *)
(* vector_index_config.vector_size that ensure_collection reads.           *)

VECTOR_SIZE == 512
DefaultMaxLen == 300

BlockTypes == <<"header", "paragraph", "list", "table">>

RECURSIVE ChunkFromLate(_, _, _, _, _)
ChunkFromLate(words, i, chunks, cur, max_len) ==
    IF i > Len(words)
    THEN IF cur # <<>> THEN Append(chunks, join(cur)) ELSE chunks
    ELSE LET cur2 == Append(cur, words[i])
         IN  IF Len(cur2) > max_len
             THEN ChunkFromLate(words, i + 1, Append(chunks, join(cur2)), <<>>, max_len)
             ELSE ChunkFromLate(words, i + 1, chunks, cur2, max_len)

\* The loop of chunk_text, lines 172-179.
RECURSIVE ChunkFrom(_, _, _, _, _)
ChunkFrom(words, i, chunks, cur, max_len) ==
    IF i > Len(words)
    THEN IF cur # <<>> THEN Append(chunks, join(cur)) ELSE chunks
    ELSE LET cur2 == Append(cur, words[i])
         IN  IF Len(cur2) >= max_len
             THEN ChunkFrom(words, i + 1, Append(chunks, join(cur2)), <<>>, max_len)
             ELSE ChunkFrom(words, i + 1, chunks, cur2, max_len)

chunk_text(text, max_len) == ChunkFrom(split(text), 1, <<>>, <<>>, max_len)

\* existing_dim: the attribute, or None (here -1) when reading it raises.
ExistingDim(coll, attr_ok) == IF attr_ok THEN coll.dim ELSE -1

ensure_collection_keep(st, attr_ok) ==
    IF ~st["PDFContent"].exists
    THEN [store |-> Create(st, "PDFContent", VECTOR_SIZE),
          calls |-> <<"get", "config", "create">>]
    ELSE [store |-> st, calls |-> <<"get", "config">>]

\* ensure_collection: config.get() raises for an absent collection, a
\* mismatch deletes and raises; the except branch creates.
ensure_collection(st, attr_ok) ==
    IF ~st["PDFContent"].exists
    THEN [store |-> Create(st, "PDFContent", VECTOR_SIZE),
          calls |-> <<"get", "config", "create">>]
    ELSE IF ExistingDim(st["PDFContent"], attr_ok) # VECTOR_SIZE
         THEN [store |-> Create(Delete(st, "PDFContent"), "PDFContent", VECTOR_SIZE),
               calls |-> <<"get", "config", "delete", "create">>]
         ELSE [store |-> st, calls |-> <<"get", "config">>]

\* blocks, lines 217-221, and the chunks the nested loops at 225-226 visit.
Blocks(extracted) ==
    [k \in 1..Len(extracted) |-> <<extracted[k].text, extracted[k].ttype>>]

RECURSIVE ChunksOf(_)
ChunksOf(blocks) ==
    IF blocks = <<>> THEN <<>>
    ELSE LET chs == chunk_text(Head(blocks)[1], DefaultMaxLen)
         IN  [k \in 1..Len(chs) |-> [content |-> chs[k], ttype |-> Head(blocks)[2]]]
             \o ChunksOf(Tail(blocks))

TypeRank(t) == CHOOSE k \in 1..Len(BlockTypes) : BlockTypes[k] = t

\* extract_images: images/page_1.png ... images/page_n.png
PagePaths(n) == [k \in 1..n |-> <<"images/page_", k, ".png">>]

InitPdf ==
    /\ StartI("pdf")
    /\ \E extracted \in SeqsUpTo([text : ChunkTexts, ttype : Range(BlockTypes)], MaxItems) :
       \E pages \in 0..MaxItems :
       \E attr_ok, pdf_exists \in BOOLEAN :
          /\ \A k \in 1..(Len(extracted) - 1) :
                TypeRank(extracted[k].ttype) <= TypeRank(extracted[k + 1].ttype)
          /\ ~pdf_exists => extracted = <<>> /\ pages = 0
          /\ i_input = [extracted |-> extracted, pages |-> pages, attr_ok |-> attr_ok,
                        pdf_exists |-> pdf_exists]
    /\ \E found \in {NoCollection,
                     [exists |-> TRUE, dim |-> VECTOR_SIZE, objs |-> {StaleObject}],
                     [exists |-> TRUE, dim |-> 384, objs |-> {StaleObject}]} :
          i_store = [EmptyStore EXCEPT !["PDFContent"] = found]

\* Lines 31-36 and 201-208: the module connects; process_pdf calls
\* ensure_collection.
PdfEnsure ==
    /\ i_script = "pdf"
    /\ i_pc = "start"
    /\ i_conn' = "open"
    /\ i_pre' = i_store
    /\ LET r == ensure_collection(i_store, i_input.attr_ok)
       IN  /\ i_store' = r.store
           /\ i_calls' = r.calls
    /\ i_backup' = [chunks |-> <<>>, images |-> <<>>]
    /\ i_pc' = "extract"
    /\ UNCHANGED <<i_script, i_run, i_input, i_items, i_file, i_uuid4, i_hist>>
    /\ UNCHANGED <<varsC, varsG, varsX, varsK, varsQ>>

\* Lines 210-223: Docling extraction, page images, the list of blocks.
\* converter.convert raises for a PDF that does not exist, and nothing
\* catches it.
PdfExtract ==
    /\ i_script = "pdf"
    /\ i_pc = "extract"
    /\ IF i_input.pdf_exists
       THEN /\ i_items' = ChunksOf(Blocks(i_input.extracted))
            /\ i_pc' = "chunks"
       ELSE /\ i_items' = i_items
            /\ i_pc' = "aborted"
    /\ UNCHANGED <<i_script, i_run, i_input, i_store, i_conn, i_calls, i_backup,
                   i_file, i_uuid4, i_pre, i_hist>>
    /\ UNCHANGED <<varsC, varsG, varsX, varsK, varsQ>>

\* Lines 225-240: one chunk; embed_text or insert may raise, and nothing
\* catches it.
PdfChunk ==
    /\ i_script = "pdf"
    /\ i_pc = "chunks"
    /\ i_items # <<>>
    /\ \E raises \in BOOLEAN :
          IF raises
          THEN /\ i_pc' = "aborted"
               /\ UNCHANGED <<i_store, i_uuid4, i_calls, i_backup, i_items>>
          ELSE LET ch == Head(i_items)
                   vec == Encode(ch.content)
               IN  /\ i_store' = Put(i_store, "PDFContent",
                                     [id |-> Uuid4(i_uuid4),
                                      props |-> <<ch.content, ch.ttype, "{}">>,
                                      vector |-> vec])
                   /\ i_uuid4' = i_uuid4 + 1
                   /\ i_calls' = Append(i_calls, "insert")
                   /\ i_backup' = [i_backup EXCEPT !.chunks =
                                     Append(@, [content |-> ch.content,
                                                type |-> ch.ttype, vector |-> vec])]
                   /\ i_items' = Tail(i_items)
                   /\ i_pc' = "chunks"
    /\ UNCHANGED <<i_script, i_run, i_input, i_conn, i_file, i_pre, i_hist>>
    /\ UNCHANGED <<varsC, varsG, varsX, varsK, varsQ>>

\* Lines 242-247: the chunks are done (step_3 backup); on to the images.
PdfChunksDone ==
    /\ i_script = "pdf"
    /\ i_pc = "chunks"
    /\ i_items = <<>>
    /\ i_items' = PagePaths(i_input.pages)
    /\ i_pc' = "images"
    /\ UNCHANGED <<i_script, i_run, i_input, i_store, i_conn, i_calls, i_backup,
                   i_file, i_uuid4, i_pre, i_hist>>
    /\ UNCHANGED <<varsC, varsG, varsX, varsK, varsQ>>

\* Lines 247-261: one page image; embed_image or insert may raise, and
\* nothing catches it.
PdfImage ==
    /\ i_script = "pdf"
    /\ i_pc = "images"
    /\ i_items # <<>>
    /\ \E raises \in BOOLEAN :
          IF raises
          THEN /\ i_pc' = "aborted"
               /\ UNCHANGED <<i_store, i_uuid4, i_calls, i_backup, i_items>>
          ELSE LET path == Head(i_items)
                   vec == Encode(path)
               IN  /\ i_store' = Put(i_store, "PDFContent",
                                     [id |-> Uuid4(i_uuid4),
                                      props |-> <<path, "image", <<"path", path>>>>,
                                      vector |-> vec])
                   /\ i_uuid4' = i_uuid4 + 1
                   /\ i_calls' = Append(i_calls, "insert")
                   /\ i_backup' = [i_backup EXCEPT !.images =
                                     Append(@, [path |-> path, vector |-> vec])]
                   /\ i_items' = Tail(i_items)
                   /\ i_pc' = "images"
    /\ UNCHANGED <<i_script, i_run, i_input, i_conn, i_file, i_pre, i_hist>>
    /\ UNCHANGED <<varsC, varsG, varsX, varsK, varsQ>>

\* Lines 263-269: step_4 and step_final backups, client.close().
PdfFinish ==
    /\ i_script = "pdf"
    /\ i_pc = "images"
    /\ i_items = <<>>
    /\ i_file' = i_backup
    /\ i_conn' = "closed"
    /\ i_calls' = Append(i_calls, "close")
    /\ i_hist' = Append(i_hist, i_store["PDFContent"].objs)
    /\ i_pc' = "returned"
    /\ UNCHANGED <<i_script, i_run, i_input, i_store, i_items, i_backup,
                   i_uuid4, i_pre>>
    /\ UNCHANGED <<varsC, varsG, varsX, varsK, varsQ>>

\* Lines 276-286 and 297-303: after process_pdf has returned, the main
\* block calls semantic_search("shareholding pattern"), which gets the
\* collection and queries it through the module's client, and prints what
\* it returns.  What a query on a closed client does is the client
\* library's business: it raises, or it answers.
PdfSearch ==
    /\ i_script = "pdf"
    /\ i_pc = "returned"
    /\ i_query' = <<"shareholding pattern">>
    /\ i_calls' = i_calls \o <<"get", "near_vector">>
    /\ \E answers \in BOOLEAN :
          i_result' = IF answers
                      THEN <<"found", ResultCount(i_store["PDFContent"], 3)>>
                      ELSE <<"raised">>
    /\ i_pc' = "done"
    /\ UNCHANGED <<i_script, i_run, i_input, i_store, i_conn, i_items, i_backup,
                   i_file, i_uuid4, i_pre, i_hist>>
    /\ UNCHANGED <<varsC, varsG, varsX, varsK>>

----------------------------------------------------------------------------
(* search.py.  The input is the queries the user types before "exit".      *)

InitSearch ==
    /\ StartI("search")
    /\ \E queries \in SeqsUpTo(ChunkTexts, MaxItems) : i_input = [queries |-> queries]
    /\ \E found \in {NoCollection,
                     [exists |-> TRUE, dim |-> VECTOR_SIZE, objs |-> {}],
                     [exists |-> TRUE, dim |-> VECTOR_SIZE, objs |-> {StaleObject}]} :
          i_store = [EmptyStore EXCEPT !["PDFContent"] = found]

\* Lines 9-20 and 85-94: connect, load the model, enter run_user_query.
SearchConnect ==
    /\ i_script = "search"
    /\ i_pc = "start"
    /\ i_conn' = "open"
    /\ i_pre' = i_store
    /\ i_items' = i_input.queries
    /\ i_pc' = "prompt"
    /\ UNCHANGED <<i_script, i_run, i_input, i_store, i_calls, i_backup, i_file,
                   i_uuid4, i_hist>>
    /\ UNCHANGED <<varsC, varsG, varsX, varsK, varsQ>>

\* Lines 50-78 and 30-41: one query; search_weaviate raises when the
\* collection does not exist, and nothing catches it.
SearchQuery ==
    /\ i_script = "search"
    /\ i_pc = "prompt"
    /\ i_items # <<>>
    /\ i_query' = Head(i_items)
    /\ i_calls' = i_calls \o <<"get", "near_vector">>
    /\ IF i_store["PDFContent"].exists
       THEN /\ i_result' = <<"found", ResultCount(i_store["PDFContent"], 5)>>
            /\ i_items' = Tail(i_items)
            /\ i_pc' = "prompt"
       ELSE /\ i_result' = <<"raised">>
            /\ i_items' = i_items
            /\ i_pc' = "aborted"
    /\ UNCHANGED <<i_script, i_run, i_input, i_store, i_conn, i_backup, i_file,
                   i_uuid4, i_pre, i_hist>>
    /\ UNCHANGED <<varsC, varsG, varsX, varsK>>

\* Lines 52-53 and 96: the user types "exit"; client.close().
SearchExit ==
    /\ i_script = "search"
    /\ i_pc = "prompt"
    /\ i_items = <<>>
    /\ i_conn' = "closed"
    /\ i_calls' = Append(i_calls, "close")
    /\ i_pc' = "finished"
    /\ UNCHANGED <<i_script, i_run, i_input, i_store, i_items, i_backup, i_file,
                   i_uuid4, i_pre, i_hist>>
    /\ UNCHANGED <<varsC, varsG, varsX, varsK, varsQ>>

----------------------------------------------------------------------------
(* image_process/image_extract.py: the main block and                      *)
(* extract_graphs_to_single_file, without the compositor (modelled above). *)
(* Each run is given some PDF; the items of its document are drawn as the  *)
(* loop visits them.  A picture is [label, md, md_raises, image]: the      *)
(* markdown export_to_markdown returns, whether it raises instead, and     *)
(* whether get_image returns an image ("ok"), returns None ("none") or     *)
(* raises ("raises").  Every picture is on page 1.                         *)

MaxPics == 3

Markdowns == {<<>>, <<" ">>, <<"a", " ", "/">>, <<" ", "a", " ", "/">>}

DocItems ==
    [label : {"picture"}, md : Markdowns, md_raises : BOOLEAN,
     image : {"ok", "none", "raises"}]
    \cup [label : {"text"}, md : {<<>>}, md_raises : {FALSE}, image : {"none"}]

DigitChars == <<"0", "1", "2", "3", "4", "5", "6", "7", "8", "9">>
Digit(d) == DigitChars[d + 1]

\* str(n)
RECURSIVE Str(_)
Str(n) == IF n < 10 THEN <<Digit(n)>> ELSE Str(n \div 10) \o <<Digit(n % 10)>>

\* f"{n:03d}"
Format03d(n) ==
    IF n < 1000
    THEN <<Digit(n \div 100), Digit((n \div 10) % 10), Digit(n % 10)>>
    ELSE Str(n)

\* c.isalnum(), for the characters that occur
IsAlnum(c) == c \in Range(DigitChars) \cup {"a", "G", "r", "p", "h"}

RECURSIVE lstrip(_)
lstrip(s) == IF s # <<>> /\ Head(s) = " " THEN lstrip(Tail(s)) ELSE s

RECURSIVE rstrip(_)
rstrip(s) ==
    IF s # <<>> /\ s[Len(s)] = " " THEN rstrip(SubSeq(s, 1, Len(s) - 1)) ELSE s

strip(s) == rstrip(lstrip(s))

\* Lines 59-64.
CaptionOf(item, pic_index) ==
    IF item.md_raises \/ strip(item.md) = <<>>
    THEN <<"G", "r", "a", "p", "h", " ">> \o Str(pic_index)
    ELSE strip(item.md)

\* Line 123.
SafeCaption(caption) ==
    rstrip(SelectSeq(caption, LAMBDA c : IsAlnum(c) \/ c \in {" ", "-", "_"}))

FileNameNoIndex(pic_index, safe_caption) ==
    SubSeq(safe_caption, 1, Min(50, Len(safe_caption))) \o <<".png">>

\* Line 124.
FileName(pic_index, safe_caption) ==
    Format03d(pic_index) \o <<"_">>
    \o SubSeq(safe_caption, 1, Min(50, Len(safe_caption))) \o <<".png">>

\* Line 125, with output_dir = "graphs_only".
ImagePath(filename) == <<"graphs_only", "/">> \o filename

NoSidecar == [present |-> FALSE, entries |-> <<>>]

IdleX == /\ x_pc = "idle"
         /\ x_run = 0
         /\ x_left = 0
         /\ x_pic_index = 0
         /\ x_extracted = <<>>
         /\ x_dir = {}
         /\ x_sidecar = NoSidecar
         /\ x_seen = <<>>

InitX == /\ x_pc = "start"
         /\ x_run = 1
         /\ x_left = 0
         /\ x_pic_index = 0
         /\ x_extracted = <<>>
         /\ x_dir = {}
         /\ x_sidecar = NoSidecar
         /\ x_seen = <<>>

\* Lines 149-154 and 26-48: the main block reports a missing PDF and calls
\* nothing; otherwise extract_graphs_to_single_file makes sure output_dir
\* exists, converts the PDF and starts the loop with an empty list.
ExtractStart ==
    /\ x_pc = "start"
    /\ \E exists \in BOOLEAN :
          IF exists
          THEN /\ x_pc' = "loop"
               /\ \E n \in 0..MaxPics : x_left' = n
          ELSE /\ x_pc' = "reported"
               /\ x_left' = 0
    /\ x_pic_index' = 0
    /\ x_extracted' = <<>>
    /\ x_seen' = <<>>
    /\ UNCHANGED <<x_run, x_dir, x_sidecar>>
    /\ UNCHANGED <<varsC, varsG, varsI, varsK>>

\* Lines 52-135: one item of the document.
ExtractItem ==
    /\ x_pc = "loop"
    /\ x_left > 0
    /\ x_left' = x_left - 1
    /\ \E item \in DocItems :
          IF item.label # "picture"
          THEN UNCHANGED <<x_pic_index, x_extracted, x_dir, x_seen>>
          ELSE LET pic_index == x_pic_index + 1
                   caption == CaptionOf(item, pic_index)
                   filename == FileName(pic_index, SafeCaption(caption))
               IN  /\ x_pic_index' = pic_index
                   /\ x_seen' = Append(x_seen, item.image = "ok")
                   /\ IF item.image # "ok"
                      THEN UNCHANGED <<x_extracted, x_dir>>
                      ELSE /\ x_dir' = x_dir \cup {filename}
                           /\ x_extracted' =
                                 Append(x_extracted,
                                        [index |-> pic_index, caption |-> caption,
                                         image_path |-> ImagePath(filename),
                                         page |-> 1])
    /\ UNCHANGED <<x_pc, x_run, x_sidecar>>
    /\ UNCHANGED <<varsC, varsG, varsI, varsK>>

\* Lines 137-146: the sidecar is written when extracted is not empty.
ExtractFinish ==
    /\ x_pc = "loop"
    /\ x_left = 0
    /\ x_sidecar' = IF x_extracted # <<>>
                    THEN [present |-> TRUE, entries |-> x_extracted]
                    ELSE x_sidecar
    /\ x_pc' = "done"
    /\ UNCHANGED <<x_run, x_left, x_pic_index, x_extracted, x_dir, x_seen>>
    /\ UNCHANGED <<varsC, varsG, varsI, varsK>>

\* The script is started again, with the same output directory.
ExtractAgain ==
    /\ x_pc \in {"done", "reported"}
    /\ x_run < MaxRuns
    /\ x_run' = x_run + 1
    /\ x_pc' = "start"
    /\ UNCHANGED <<x_left, x_pic_index, x_extracted, x_dir, x_sidecar, x_seen>>
    /\ UNCHANGED <<varsC, varsG, varsI, varsK>>

----------------------------------------------------------------------------
(* chunk_text of text_+_image.py, called on its own with any text and any  *)
(* max_len from 0 up.                                                      *)

MaxTextLen == 5
MaxChunkWords == 3

IdleK == /\ k_pc = "idle"
         /\ k_text = <<>>
         /\ k_max_len = 0
         /\ k_chunks = <<>>

InitK == /\ k_pc = "input"
         /\ k_text \in SeqsUpTo(ComposeChars, MaxTextLen)
         /\ k_max_len \in 0..MaxChunkWords
         /\ k_chunks = <<>>

ChunkCall ==
    /\ k_pc = "input"
    /\ k_chunks' = chunk_text(k_text, k_max_len)
    /\ k_pc' = "chunked"
    /\ UNCHANGED <<k_text, k_max_len>>
    /\ UNCHANGED <<varsC, varsG, varsI, varsX>>

----------------------------------------------------------------------------
(* Specifications.                                                         *)

NextCompose == Compose
InitCompose == InitC /\ IdleG /\ IdleI /\ IdleX /\ IdleK
SpecCompose == InitCompose /\ [][NextCompose]_vars

NextGraphs ==
    \/ GraphsStart
    \/ GraphsPage
    \/ GraphsContour
    \/ GraphsPageEnd
    \/ GraphsDone
InitGraphs == InitG /\ IdleC /\ IdleI /\ IdleX /\ IdleK
SpecGraphs == InitGraphs /\ [][NextGraphs]_vars

InitIndex == (InitImages \/ InitText \/ InitPdf \/ InitSearch) /\ IdleC /\ IdleG /\ IdleX /\ IdleK
NextIndex ==
    \/ ImagesSetup
    \/ ImagesItem
    \/ ImagesFinish
    \/ TextSetup
    \/ TextInsert
    \/ TextClose
    \/ PdfEnsure
    \/ PdfExtract
    \/ PdfChunk
    \/ PdfChunksDone
    \/ PdfImage
    \/ PdfFinish
    \/ PdfSearch
    \/ QuerySetup
    \/ QueryMissing
    \/ QuerySearch
    \/ QueryClose
    \/ LookupConnect
    \/ LookupQuery
    \/ LookupClose
    \/ SearchConnect
    \/ SearchQuery
    \/ SearchExit
    \/ Rerun
SpecIndex == InitIndex /\ [][NextIndex]_vars

InitExtract == InitX /\ IdleC /\ IdleG /\ IdleI /\ IdleK
NextExtract ==
    \/ ExtractStart
    \/ ExtractItem
    \/ ExtractFinish
    \/ ExtractAgain
SpecExtract == InitExtract /\ [][NextExtract]_vars

InitChunk == InitK /\ IdleC /\ IdleG /\ IdleI /\ IdleX
NextChunk == ChunkCall
SpecChunk == InitChunk /\ [][NextChunk]_vars

----------------------------------------------------------------------------
(* Claims about extract_graphs (SpecGraphs).                               *)

PageFiles == {f \in g_folder : f[1] = g_page_no + 1}

\* C1: on every page, the regions saved so far are exactly the contours
\* handled so far whose bounding rectangle has w*h >= 40000, w >= 250 and
\* h >= 180, each as often as it occurs (no deduplication) and each in a
\* file of its own; so a page without such a contour yields no region.
C1_SavedIffPassesFilter ==
    g_pc = "contour" =>
        /\ g_emitted = SelectSeq(SubSeq(g_contours, 1, g_ci), Passes)
        /\ Cardinality(PageFiles) = Len(g_emitted)

\* A finished page with a rejected contour and two coinciding saved ones.
C1_Witness ==
    /\ g_pc = "contour"
    /\ g_ci = Len(g_contours)
    /\ Len(g_contours) = 3
    /\ Len(g_emitted) = 2
    /\ g_emitted[1] = g_emitted[2]

Ascending(s) == \A i \in 1..(Len(s) - 1) : s[i].y <= s[i + 1].y

\* C2: within a page the saved regions are in ascending order of their top
\* edge, whatever order the contour extractor returned them in, and the
\* finished page holds the sequence that filtering first and sorting after
\* gives.
C2_ReadingOrder ==
    g_pc = "contour" =>
        /\ Ascending(g_emitted)
        /\ g_ci = Len(g_contours) =>
              g_emitted = SortedByY(SelectSeq(g_found, Passes))

\* A finished page whose contours came out of order, with a rejected one.
C2_Witness ==
    /\ g_pc = "contour"
    /\ g_ci = Len(g_contours)
    /\ Len(g_found) = 3
    /\ Len(g_emitted) = 2
    /\ g_emitted # SelectSeq(g_found, Passes)

----------------------------------------------------------------------------
(* Claims about the caption compositor (SpecCompose).                      *)

\* C3: for a non-empty caption the composite is as wide as the region and
\* font_size + 20 rows higher, however many lines the caption wraps to.
C3_CompositeSize ==
    (c_pc = "composed" /\ c_caption # <<>>) =>
        /\ c_out.width = c_image.width
        /\ c_out.height = c_image.height + (c_font + 20)
        /\ DOMAIN c_out.rows = 0..(c_image.height + c_font + 20 - 1)

\* A composite whose caption wrapped to three lines.
C3_Witness ==
    /\ c_pc = "composed"
    /\ c_caption # <<>>
    /\ Len(c_out.lines) = 3

\* C4 (as claimed): every wrapped caption line is drawn at an offset y with
\* y + font_size <= font_size + 20, that is, inside the caption band.
C4_CaptionInsideBand ==
    c_pc = "composed" =>
        \A k \in 1..Len(c_out.ys) : c_out.ys[k] + c_font <= c_font + 20

\* C5 (as claimed): every produced line, a single-word line included,
\* measures less than image_width - 40.
C5_EveryLineFits ==
    c_pc = "composed" =>
        \A k \in 1..Len(c_out.lines) :
            textlength(c_out.lines[k]) < c_image.width - 40

\* C5 (amended): every produced line measures less than image_width - 40
\* or is a single word that alone measures at least image_width - 40.
C5_LineFitsOrIsOneLongWord ==
    c_pc = "composed" =>
        \A k \in 1..Len(c_out.lines) :
            \/ textlength(c_out.lines[k]) < c_image.width - 40
            \/ /\ Len(split(c_out.lines[k])) = 1
               /\ textlength(split(c_out.lines[k])[1]) >= c_image.width - 40

\* A caption wrapped to two lines, the first of two words.
C5_Witness ==
    /\ c_pc = "composed"
    /\ Len(c_out.lines) = 2
    /\ Len(split(c_out.lines[1])) = 2

\* C6: every pixel row y of the region is row y + font_size + 20 of the
\* composite, whatever was drawn for the caption.
C6_RegionPastedUnmodified ==
    c_pc = "composed" =>
        \A y \in 0..(c_image.height - 1) :
            c_out.rows[y + c_font + 20] = <<"px", y>>

\* A composite whose second caption line was drawn over the rows the
\* region is pasted on.
C6_Witness ==
    /\ c_pc = "composed"
    /\ Len(c_out.ys) >= 2
    /\ c_out.ys[2] + c_font > c_font + 20
    /\ c_image.height = 30

----------------------------------------------------------------------------
(* Claims about the indexing scripts (SpecIndex).                          *)

GoodImages ==
    {f \in Range(i_input.listing) :
        Suffix(f) \in ImageSuffixes /\ f \notin i_input.corrupt \cup i_input.rejected}

PathAndId(objs) == {<<o.props[2], o.id>> : o \in objs}

\* C7: whenever a run of data_store_weav has finished, MyLocalImages holds
\* exactly one object per image that could be processed, and every finished
\* run so far left the same identifiers, each for the same image path, as
\* the first run.
C7_RerunSameIdentifiers ==
    (i_script = "images" /\ i_pc = "done") =>
        LET objs == i_store["MyLocalImages"].objs
        IN  /\ Cardinality(objs) = Cardinality(GoodImages)
            /\ {o.props[2] : o \in objs} = {PathStr(f) : f \in GoodImages}
            /\ \A r \in 1..Len(i_hist) :
                  /\ PathAndId(i_hist[r]) = PathAndId(i_hist[1])
                  /\ Cardinality(i_hist[r]) = Cardinality(i_hist[1])

\* The second run has finished on a folder with two images of the same
\* file name in different directories and an unreadable one, over a
\* collection an earlier indexing had left.
C7_Witness ==
    /\ i_script = "images"
    /\ i_pc = "done"
    /\ i_run = 2
    /\ Len(i_hist) = 2
    /\ Cardinality(GoodImages) = 2
    /\ i_input.corrupt # {}
    /\ \E f, g \in GoodImages : f # g /\ f.name = g.name

\* C8 (as claimed): after the second run of store_in_weaviate or
\* process_pdf on the same input the collection holds as many objects as
\* after the first.
C8_SecondRunAddsNothing ==
    (i_script \in {"text", "pdf"} /\ i_pc = "done" /\ Len(i_hist) >= 2) =>
        Cardinality(i_hist[2]) = Cardinality(i_hist[1])

\* C9 (as claimed): a run on an existing input that has stopped has gone
\* through every item of its loop and reached its final save.
C9_FailureSkipsOnlyTheItem ==
    (/\ i_script \in {"images", "pdf"}
     /\ i_pc \in {"done", "aborted"}
     /\ i_script = "pdf" => i_input.pdf_exists) =>
        /\ i_items = <<>>
        /\ i_pc = "done"
        /\ i_file = i_backup

\* C10: when ensure_collection has returned, PDFContent exists with vector
\* size 512; and if the collection it found had another vector size, it was
\* deleted and then created anew, so that it holds no object.
C10_EnsureCollection ==
    (i_script = "pdf" /\ i_pc = "extract") =>
        LET pre == i_pre["PDFContent"]
            now == i_store["PDFContent"]
        IN  /\ now.exists
            /\ now.dim = 512
            /\ (pre.exists /\ pre.dim # 512) =>
                  /\ now.objs = {}
                  /\ \E a, b \in 1..Len(i_calls) :
                        a < b /\ i_calls[a] = "delete" /\ i_calls[b] = "create"

\* ensure_collection has returned after finding PDFContent with vector size
\* 384 and an object in it.
C10_Witness ==
    /\ i_script = "pdf"
    /\ i_pc = "extract"
    /\ i_pre["PDFContent"].exists
    /\ i_pre["PDFContent"].dim = 384
    /\ i_pre["PDFContent"].objs # {}
    /\ i_store["PDFContent"].objs = {}

CloseCount(calls) == Len(SelectSeq(calls, LAMBDA c : c = "close"))

\* C11 (as claimed): a script whose input does not exist issues no store
\* operation before it stops, and stops by reporting, not by an uncaught
\* exception: text_+_image.py on a missing PDF calls nothing on the store,
\* check_image_data.py on a missing query image never queries.
C11_MissingInputStopsTheScript ==
    /\ (i_script = "pdf" /\ ~i_input.pdf_exists) =>
          i_calls = <<>> /\ i_pc # "aborted"
    /\ (i_script = "query" /\ i_query \notin Range(i_input.listing)) =>
          i_pc \in {"check", "exited"} /\ "near_vector" \notin Range(i_calls)

\* C12 (as claimed): no store operation is issued after the connection was
\* closed, and a run that has completed closed its connection exactly once.
C12_NoOperationAfterClose ==
    /\ \A a \in 1..Len(i_calls) : i_calls[a] = "close" => a = Len(i_calls)
    /\ i_pc \in {"done", "finished", "exited"} => CloseCount(i_calls) = 1

\* The vector of the stored object with this identifier.
VectorOf(coll, id) == (CHOOSE o \in coll.objs : o.id = id).vector

QueryImageIndexed ==
    /\ i_script = "query"
    /\ i_pc \in {"printed", "finished"}
    /\ generate_uuid5(i_query) \in Ids(i_store["MyLocalImages"])

InsertedThisRun ==
    IF i_script = "images"
    THEN i_store["MyLocalImages"].objs
    ELSE i_store["PDFContent"].objs \ i_pre["PDFContent"].objs

BackupRecords ==
    IF i_script = "images"
    THEN {<<"image", i_file[k].path, i_file[k].vector>> : k \in 1..Len(i_file)}
    ELSE {<<"chunk", i_file.chunks[k].content, i_file.chunks[k].vector>> :
             k \in 1..Len(i_file.chunks)}
         \cup {<<"image", i_file.images[k].path, i_file.images[k].vector>> :
                  k \in 1..Len(i_file.images)}

StoredRecords ==
    IF i_script = "images"
    THEN {<<"image", o.props[2], o.vector>> : o \in InsertedThisRun}
    ELSE {<<IF o.props[2] = "image" THEN "image" ELSE "chunk", o.props[1], o.vector>> :
             o \in InsertedThisRun}

BackupLength ==
    IF i_script = "images" THEN Len(i_file)
    ELSE Len(i_file.chunks) + Len(i_file.images)

\* C15 (as claimed): when data_store_weav or process_pdf has finished, the
\* backup file holds one record per object inserted by the run, for the
\* same items with the same vectors, and none for an item that was not
\* inserted.
C15_BackupMatchesStore ==
    (i_script \in {"images", "pdf"} /\ i_pc \in {"done", "returned"}) =>
        /\ BackupLength = Cardinality(InsertedThisRun)
        /\ BackupRecords = StoredRecords

\* C16: in store_in_weaviate and search_weaviate (check_data_store.py) the
\* connection is open from connect_to_local until the finally clause, and
\* when the function has been left, by return or by an exception of
\* collection creation, an insert, model loading or the query, close() has
\* been called exactly once, as the last call on the client.
C16_ClosedOnceOnEveryExit ==
    i_script \in {"text", "lookup"} =>
        /\ CloseCount(i_calls) <= 1
        /\ i_pc \in {"done", "failed", "finished"} =>
              /\ CloseCount(i_calls) = 1
              /\ i_calls[Len(i_calls)] = "close"
              /\ i_conn = "closed"
        /\ i_pc \in {"loop", "try", "raised", "printed"} =>
              /\ CloseCount(i_calls) = 0
              /\ i_conn = "open"

\* store_in_weaviate has been left by the exception of its second insert,
\* the first object stored.
C16_Witness ==
    /\ i_script = "text"
    /\ i_pc = "failed"
    /\ Len(i_items) = 1
    /\ Len(i_input.chunks) = 2
    /\ CloseCount(i_calls) = 1

\* C17 (as claimed): when ensure_collection found PDFContent with vector
\* size 512, it has returned without delete or create and the collection
\* holds what it held.
C17_MatchingCollectionKept ==
    (/\ i_script = "pdf"
     /\ i_pc = "extract"
     /\ i_pre["PDFContent"].exists
     /\ i_pre["PDFContent"].dim = VECTOR_SIZE) =>
        /\ i_store = i_pre
        /\ "delete" \notin Range(i_calls)
        /\ "create" \notin Range(i_calls)

----------------------------------------------------------------------------
(* Further claims about extract_graphs (SpecGraphs).                       *)

\* C19: when extract_graphs has returned, img_count is the number of
\* contours of all pages that have the minimum size, the output folder
\* holds exactly img_count files, every one written by this call and named
\* graph_<page>_<n> for a page of the PDF, and the n of the files are
\* exactly 1..img_count (so the names are pairwise distinct).
C19_FolderHoldsThisRun ==
    g_pc = "done" =>
        /\ g_img_count = g_total
        /\ Cardinality(g_folder) = g_img_count
        /\ \A f \in g_folder : f[3] = "new" /\ f[1] \in 1..g_pdf.pages
        /\ {f[2] : f \in g_folder} = 1..g_img_count

\* A call that found two files in the folder has returned after saving
\* regions from two pages.
C19_Witness ==
    /\ g_pc = "done"
    /\ g_before = OldFiles
    /\ g_img_count >= 2
    /\ \E f, g \in g_folder : f[1] = 1 /\ g[1] = 2

\* C20 (as claimed): when the PDF cannot be opened, the output folder holds
\* after the call what it held before.
C20_FailureKeepsOldOutput ==
    g_pc = "failed" => g_folder = g_before

----------------------------------------------------------------------------
(* Claims about extract_graphs_to_single_file (SpecExtract).               *)

SidecarEntries == IF x_sidecar.present THEN x_sidecar.entries ELSE <<>>

\* C13 (as claimed): when a run of extract_graphs_to_single_file has
\* returned, graphs_only.json lists exactly the regions this run saved, in
\* extraction order; after a run that saved none it lists none.
C13_SidecarOfThisRun ==
    x_pc = "done" => SidecarEntries = x_extracted

\* The pictures visited so far whose image was obtained, by pic_index.
Obtained == {k \in 1..Len(x_seen) : x_seen[k]}

FileOf(image_path) == SubSeq(image_path, 3, Len(image_path))

\* C18: throughout a run, the records have pairwise distinct image_path
\* values and strictly increasing indices, each record's file is in the
\* output directory, and the records are exactly those of the pictures
\* whose image was obtained: a picture without an image has no record and
\* no file named after its index.
C18_OneFilePerPicture ==
    x_pc \in {"loop", "done"} =>
        /\ \A a, b \in 1..Len(x_extracted) : a < b =>
              /\ x_extracted[a].image_path # x_extracted[b].image_path
              /\ x_extracted[a].index < x_extracted[b].index
        /\ {x_extracted[k].index : k \in 1..Len(x_extracted)} = Obtained
        /\ Len(x_extracted) = Cardinality(Obtained)
        /\ \A k \in 1..Len(x_extracted) : FileOf(x_extracted[k].image_path) \in x_dir
        /\ x_run = 1 =>
              /\ Cardinality(x_dir) = Len(x_extracted)
              /\ \A f \in x_dir : \E k \in 1..Len(x_extracted) :
                    FileOf(x_extracted[k].image_path) = f

\* A first run has returned after three pictures: two with the same
\* caption, saved under different names, and between them one whose image
\* could not be obtained.
C18_Witness ==
    /\ x_pc = "done"
    /\ x_run = 1
    /\ x_seen = <<TRUE, FALSE, TRUE>>
    /\ Len(x_extracted) = 2
    /\ x_extracted[1].caption = x_extracted[2].caption
    /\ x_extracted[2].index = 3
    /\ Cardinality(x_dir) = 2

----------------------------------------------------------------------------
(* A further claim about the caption compositor (SpecCompose).             *)

\* C22: the wrapping loop neither loses nor reorders words: no line of the
\* composite is empty, the lines joined with single spaces are the
\* caption's whitespace-separated words joined with single spaces, and a
\* caption without words gives no line.
C22_WrapKeepsWords ==
    c_pc = "composed" =>
        /\ \A k \in 1..Len(c_out.lines) : c_out.lines[k] # <<>>
        /\ join(c_out.lines) = join(split(c_caption))
        /\ split(c_caption) = <<>> => c_out.lines = <<>>

\* A caption of three words has been wrapped into two lines, the first of
\* two words.
C22_Witness ==
    /\ c_pc = "composed"
    /\ Len(split(c_caption)) = 3
    /\ Len(c_out.lines) = 2
    /\ Len(split(c_out.lines[1])) = 2

----------------------------------------------------------------------------
(* A claim about chunk_text (SpecChunk).                                   *)

\* The words of the chunks, in order.
RECURSIVE WordsOf(_)
WordsOf(chunks) ==
    IF chunks = <<>> THEN <<>> ELSE split(Head(chunks)) \o WordsOf(Tail(chunks))

\* C21: for max_len >= 1, chunk_text partitions the words of the text: no
\* chunk is empty, every chunk but the last has exactly max_len words and
\* the last has between 1 and max_len, the words of the chunks in order are
\* the words of the text in order, and a text without words gives the
\* empty list.
C21_ChunksPartitionWords ==
    (k_pc = "chunked" /\ k_max_len >= 1) =>
        /\ \A k \in 1..Len(k_chunks) :
              /\ k_chunks[k] # <<>>
              /\ Len(split(k_chunks[k])) \in 1..k_max_len
              /\ k < Len(k_chunks) => Len(split(k_chunks[k])) = k_max_len
        /\ WordsOf(k_chunks) = split(k_text)
        /\ split(k_text) = <<>> => k_chunks = <<>>

\* A text of three words has been cut with max_len = 2 into a chunk of two
\* words and a last chunk of one.
C21_Witness ==
    /\ k_pc = "chunked"
    /\ k_max_len = 2
    /\ Len(split(k_text)) = 3
    /\ Len(k_chunks) = 2
    /\ Len(split(k_chunks[2])) = 1

====
